---- MODULE Spec2Model ----
(***************************************************************************)
(* Model of src/app.py: the Flask defect-detection portal.                 *)
(* State: the two SQLite tables (users, detection_history), the SQLite     *)
(* write lock, the image folders, one cookie session per client and the    *)
(* position and local variables of the request each client has in flight.  *)
(* Every database statement of a handler is one step, so that requests of  *)
(* different clients interleave between statements as they do under the    *)
(* threaded server.                                                        *)
(***************************************************************************)
EXTENDS Integers, Sequences, FiniteSets, TLC

\* ------------------------------------------------------------------ bounds
NumClients == 2
MaxUploads == 2
MaxTime == 1
MaxFindings == 1
MaxUsers == 2

Clients == 1..NumClients

\* --------------------------------------------------------- program constants
\* dashboard: LIMIT 5
RecentLimit == 5
\* register: len(username) < 3
MinUsernameLen == 3
\* register / profile: len(password) < 4
MinPasswordLen == 4

\* model.names of the trained model (comment at app.py:45)
names == <<"dent", "scratch", "lamp_broken", "glass_broken", "tire_flat">>

DEFECT_COLORS == [dent |-> <<203, 192, 255>>, scratch |-> <<255, 0, 0>>,
                  lamp_broken |-> <<0, 255, 255>>, glass_broken |-> <<128, 0, 128>>,
                  tire_flat |-> <<0, 0, 255>>]

DefaultColor == <<0, 255, 0>>

allowed_extensions == {"jpg", "jpeg", "png"}

\* ------------------------------------------------------------------ inputs
\* Strings whose length the code inspects are sequences of characters.
UsernameInputs == { <<>>, <<"a", "l">>, <<"a", "l", "i">>, <<" ", "b", "o", "b">> }
PasswordInputs == { <<>>, <<"p", "w">>, <<"p", "w", "0", "1">>, <<"p", "w", "0", "2">> }

\* An uploaded file: its filename (stem, extension after the last dot; a
\* missing file is NoFile, an empty filename has stem and ext "").
NoFile == [present |-> FALSE, stem |-> "", ext |-> ""]
FileInputs == { NoFile,
                [present |-> TRUE, stem |-> "", ext |-> ""],
                [present |-> TRUE, stem |-> "car", ext |-> "PNG"],
                [present |-> TRUE, stem |-> "car", ext |-> "gif"] }

\* Boxes the detector can emit: class id, confidence in units of 1e-5,
\* xyxy in tenths of a pixel (floats before int()).  The second box is one
\* clipped to the right image border: zero width.
Boxes == { [cls |-> 0, conf |-> 42424, xyxy |-> <<1002, 1000, 5009, 4000>>],
           [cls |-> 4, conf |-> 91000, xyxy |-> <<6400, 1000, 6400, 3000>>] }

RECURSIVE SeqsUpTo(_, _)
SeqsUpTo(S, n) ==
    IF n = 0 THEN { <<>> }
    ELSE LET shorter == SeqsUpTo(S, n - 1)
         IN  shorter \cup { Append(s, x) : s \in { t \in shorter : Len(t) = n - 1 }, x \in S }

FindingSets == SeqsUpTo(Boxes, MaxFindings)

\* ----------------------------------------------------------------- helpers
Range(s) == { s[i] : i \in 1..Len(s) }

\* str.strip() on a sequence of characters
RECURSIVE strip(_)
strip(s) ==
    IF s = <<>> THEN s
    ELSE IF Head(s) = " " THEN strip(Tail(s))
    ELSE IF s[Len(s)] = " " THEN strip(SubSeq(s, 1, Len(s) - 1))
    ELSE s

\* str.lower() on the extensions that occur
lower(e) == CASE e = "PNG" -> "png" [] e = "JPG" -> "jpg" [] e = "JPEG" -> "jpeg" [] OTHER -> e

\* werkzeug: a hash verifies exactly the password it was generated from
generate_password_hash(password) == <<"pbkdf2", password>>
check_password_hash(hash, password) == hash = <<"pbkdf2", password>>

\* int() of a non-negative float given in tenths
int(tenths) == tenths \div 10

\* f"{conf:.2%}": percent with two decimals, as hundredths of a percent
FormatPercent2(conf) == (conf + 5) \div 10
\* f"{conf:.0%}": whole percent
FormatPercent0(conf) == (conf + 500) \div 1000

\* DEFECT_COLORS.get(class_name, (0, 255, 0))
ColorOf(class_name) ==
    IF class_name \in DOMAIN DEFECT_COLORS THEN DEFECT_COLORS[class_name] ELSE DefaultColor

\* ", ".join(xs) if xs else <default>: the text keeps the items in order
JoinOr(xs, default) == IF xs # <<>> THEN xs ELSE <<default>>

\* ------------------------------------------------------------------- state
VARIABLES users, user_seq, detection_history, history_seq, writer,
          uploads, results, session, pc, loc, resp, now, nfiles

vars == <<users, user_seq, detection_history, history_seq, writer,
          uploads, results, session, pc, loc, resp, now, nfiles>>

db == <<users, user_seq, detection_history, history_seq, writer>>
files == <<uploads, results, nfiles>>

NoSession == [user_id |-> 0, username |-> <<>>]
LoggedInUnchecked(p) == TRUE
LoggedIn(p) == session[p].user_id # 0

NoForm == [a |-> <<>>, b |-> <<>>]

\* The local variables of a request before its handler has assigned them.
Loc0 == [route |-> "", form |-> NoForm,
         filename |-> <<>>, boxes |-> <<>>, img |-> <<>>,
         detections |-> <<>>, defect_classes |-> <<>>, confidence_scores |-> <<>>,
         vehicle_status |-> "", imwrite_ok |-> FALSE, staged |-> <<>>, created |-> 0,
         result_data |-> <<>>, failure |-> "",
         total_inspections |-> 0, broken_count |-> 0, non_broken_count |-> 0,
         records |-> <<>>, user |-> <<>>]

NoResp == [kind |-> "none", flash |-> ""]

Init ==
    /\ users = <<>>
    /\ user_seq = 0
    /\ detection_history = <<>>
    /\ history_seq = 0
    /\ writer = 0
    /\ uploads = {}
    /\ results = {}
    /\ nfiles = 0
    /\ session = [p \in Clients |-> NoSession]
    /\ pc = [p \in Clients |-> "idle"]
    /\ loc = [p \in Clients |-> Loc0]
    /\ resp = [p \in Clients |-> NoResp]
    /\ now = 0

\* A finished handler's response is on its way: sending it touches no state
\* any other request reads, so it is taken as the next step.
Sending == \E p \in Clients : pc[p] = "done"

\* Client p's request stands at label l and may take its next step.
At(p, l) == ~Sending /\ pc[p] = l

\* A handler returns: the response is recorded and the request is over.
Return(p, kind, flash) ==
    /\ pc' = [pc EXCEPT ![p] = "done"]
    /\ resp' = [resp EXCEPT ![p] = [kind |-> kind, flash |-> flash]]

\* An exception leaves the handler: the server answers 500.
Raise(p) ==
    /\ pc' = [pc EXCEPT ![p] = "done"]
    /\ resp' = [resp EXCEPT ![p] = [kind |-> "error500", flash |-> ""]]

\* ------------------------------------------------------------------ queries
UserByName(username) == { u \in Range(users) : u.username = username }
UserById(id) == { u \in Range(users) : u.id = id }

\* The filter left out: the query matches every user's rows.
ForUserAny(r, uid) == TRUE

\* WHERE user_id = ?  (rows in rowid order)
ForUser(r, uid) == r.user_id = uid
RowsOf(uid) == SelectSeq(detection_history, LAMBDA r : ForUser(r, uid))

\* SELECT COUNT(*) ... WHERE user_id = ?
CountAll(uid) == Len(RowsOf(uid))
\* SELECT COUNT(*) ... WHERE user_id = ? AND vehicle_status = ?
CountStatus(uid, status) ==
    Len(SelectSeq(RowsOf(uid), LAMBDA r : r.vehicle_status = status))

\* ORDER BY timestamp DESC: every arrangement of the rows with non-increasing
\* timestamps; SQL leaves the order of rows with equal timestamps open.
OrderByTimestampDesc(rows) ==
    LET n == Len(rows)
        perms == { f \in [1..n -> 1..n] : \A i, j \in 1..n : i # j => f[i] # f[j] }
    IN  { [i \in 1..n |-> rows[f[i]]] : f \in
            { g \in perms : \A i, j \in 1..n :
                               i < j => rows[g[i]].timestamp >= rows[g[j]].timestamp } }

\* LIMIT n
Limit(s, n) == IF Len(s) <= n THEN s ELSE SubSeq(s, 1, n)

\* AUTOINCREMENT: one more than the largest id ever used
NextId(seq) == seq + 1

\* No locking: a write statement starts at once.
CanWriteUnlocked(p) == TRUE

\* The SQLite write lock: a write statement starts a transaction only when
\* no other connection has one open.
CanWrite(p) == writer = 0

\* ----------------------------------------------------------- authentication
\* /login
Login(p, method, username_in, password) ==
    /\ At(p, "idle")
    /\ UNCHANGED <<db, files, now>>
    /\ IF LoggedIn(p) \/ method = "GET"
       THEN /\ loc' = [loc EXCEPT ![p] = [Loc0 EXCEPT !.route = "login"]]
            /\ UNCHANGED session
            /\ IF LoggedIn(p)
               THEN Return(p, "redirect_dashboard", "")
               ELSE Return(p, "login.html", "")
       ELSE LET username == strip(username_in)
                found == UserByName(username)
                form == [a |-> username, b |-> password]
            IN  IF username = <<>> \/ password = <<>>
                THEN /\ loc' = [loc EXCEPT ![p] =
                                  [Loc0 EXCEPT !.route = "login", !.form = form]]
                     /\ UNCHANGED session
                     /\ Return(p, "login.html", "error")
                ELSE IF \E user \in found : check_password_hash(user.password_hash, password)
                THEN /\ \E user \in found :
                          /\ check_password_hash(user.password_hash, password)
                          /\ loc' = [loc EXCEPT ![p] =
                                       [Loc0 EXCEPT !.route = "login", !.form = form,
                                                    !.user = user]]
                          /\ session' = [session EXCEPT ![p] =
                                        [user_id |-> user.id, username |-> user.username]]
                     /\ Return(p, "redirect_dashboard", "success")
                ELSE /\ loc' = [loc EXCEPT ![p] =
                                  [Loc0 EXCEPT !.route = "login", !.form = form]]
                     /\ UNCHANGED session
                     /\ Return(p, "login.html", "error")

\* /register up to the check for an existing username
Register(p, method, username_in, password, confirm_password) ==
    /\ At(p, "idle")
    /\ UNCHANGED <<db, files, now, session>>
    /\ LET username == strip(username_in)
           l == [Loc0 EXCEPT !.route = "register"]
       IN  IF LoggedIn(p)
              THEN Return(p, "redirect_dashboard", "") /\ loc' = [loc EXCEPT ![p] = l]
              ELSE IF method = "GET"
              THEN Return(p, "register.html", "") /\ loc' = [loc EXCEPT ![p] = l]
              ELSE IF \/ username = <<>> \/ password = <<>>
                      \/ Len(username) < MinUsernameLen
                      \/ Len(password) < MinPasswordLen
                      \/ password # confirm_password
                      \/ UserByName(username) # {}
              THEN Return(p, "register.html", "error") /\ loc' = [loc EXCEPT ![p] = l]
              ELSE /\ user_seq < MaxUsers
                   /\ loc' = [loc EXCEPT ![p] =
                                [l EXCEPT !.form = [a |-> username, b |-> password]]]
                   /\ pc' = [pc EXCEPT ![p] = "reg_insert"]
                   /\ UNCHANGED resp

\* /register: INSERT INTO users, commit
RegisterInsert(p) ==
    /\ At(p, "reg_insert")
    /\ user_seq < MaxUsers
    /\ CanWrite(p)
    /\ UserByName(loc[p].form.a) = {}
    /\ users' = Append(users, [id |-> NextId(user_seq), username |-> loc[p].form.a,
                               password_hash |-> generate_password_hash(loc[p].form.b)])
    /\ user_seq' = NextId(user_seq)
    /\ Return(p, "redirect_login", "success")
    /\ UNCHANGED <<detection_history, history_seq, writer, files, now, session, loc>>

\* /register: the INSERT raises (UNIQUE constraint, database locked, storage)
RegisterInsertFails(p) ==
    /\ At(p, "reg_insert")
    /\ Raise(p)
    /\ loc' = [loc EXCEPT ![p] = [Loc0 EXCEPT !.route = loc[p].route, !.failure = "insert"]]
    /\ UNCHANGED <<db, files, now, session>>

\* /logout
Logout(p) ==
    /\ At(p, "idle")
    /\ session' = [session EXCEPT ![p] = NoSession]
    /\ loc' = [loc EXCEPT ![p] = [Loc0 EXCEPT !.route = "logout"]]
    /\ Return(p, "redirect_login", "info")
    /\ UNCHANGED <<db, files, now>>

\* ---------------------------------------------------------------- dashboard
\* /dashboard: session check and SELECT COUNT(*) ... WHERE user_id = ?
Dashboard(p) ==
    /\ At(p, "idle")
    /\ UNCHANGED <<db, files, now, session>>
    /\ IF ~LoggedIn(p)
       THEN /\ loc' = [loc EXCEPT ![p] = [Loc0 EXCEPT !.route = "dashboard"]]
            /\ Return(p, "redirect_login", "")
       ELSE /\ loc' = [loc EXCEPT ![p] = [Loc0 EXCEPT !.route = "dashboard",
                          !.total_inspections = CountAll(session[p].user_id)]]
            /\ pc' = [pc EXCEPT ![p] = "dash_broken"]
            /\ UNCHANGED resp

\* SELECT COUNT(*) ... AND vehicle_status = 'Broken'
DashboardBroken(p) ==
    /\ At(p, "dash_broken")
    /\ loc' = [loc EXCEPT ![p].broken_count = CountStatus(session[p].user_id, "Broken")]
    /\ pc' = [pc EXCEPT ![p] = "dash_non_broken"]
    /\ UNCHANGED <<db, files, now, session, resp>>

\* SELECT COUNT(*) ... AND vehicle_status = 'Non-Broken'
DashboardNonBroken(p) ==
    /\ At(p, "dash_non_broken")
    /\ loc' = [loc EXCEPT ![p].non_broken_count =
                                  CountStatus(session[p].user_id, "Non-Broken")]
    /\ pc' = [pc EXCEPT ![p] = "dash_recent"]
    /\ UNCHANGED <<db, files, now, session, resp>>

\* SELECT * ... ORDER BY timestamp DESC LIMIT 5, render
DashboardRecent(p) ==
    /\ At(p, "dash_recent")
    /\ \E s \in OrderByTimestampDesc(RowsOf(session[p].user_id)) :
          loc' = [loc EXCEPT ![p].records = Limit(s, RecentLimit)]
    /\ Return(p, "dashboard.html", "")
    /\ UNCHANGED <<db, files, now, session>>

\* ------------------------------------------------------------------ history
\* /history
History(p) ==
    /\ At(p, "idle")
    /\ UNCHANGED <<db, files, now, session>>
    /\ IF ~LoggedIn(p)
       THEN /\ loc' = [loc EXCEPT ![p] = [Loc0 EXCEPT !.route = "history"]]
            /\ Return(p, "redirect_login", "")
       ELSE /\ \E s \in OrderByTimestampDesc(RowsOf(session[p].user_id)) :
                  loc' = [loc EXCEPT ![p] = [Loc0 EXCEPT !.route = "history", !.records = s]]
            /\ Return(p, "history.html", "")

\* ------------------------------------------------------------------ profile
\* /profile: session check, SELECT the user row and the total
Profile(p) ==
    /\ At(p, "idle")
    /\ UNCHANGED <<db, files, now, session>>
    /\ IF ~LoggedIn(p)
       THEN /\ loc' = [loc EXCEPT ![p] = [Loc0 EXCEPT !.route = "profile"]]
            /\ Return(p, "redirect_login", "")
       ELSE /\ loc' = [loc EXCEPT ![p] = [Loc0 EXCEPT !.route = "profile",
                          !.user = SelectSeq(users, LAMBDA u : u.id = session[p].user_id),
                          !.total_inspections = CountAll(session[p].user_id)]]
            /\ pc' = [pc EXCEPT ![p] = "prof_broken"]
            /\ UNCHANGED resp

ProfileBroken(p) ==
    /\ At(p, "prof_broken")
    /\ loc' = [loc EXCEPT ![p].broken_count = CountStatus(session[p].user_id, "Broken")]
    /\ pc' = [pc EXCEPT ![p] = "prof_non_broken"]
    /\ UNCHANGED <<db, files, now, session, resp>>

ProfileNonBroken(p) ==
    /\ At(p, "prof_non_broken")
    /\ loc' = [loc EXCEPT ![p].non_broken_count =
                                  CountStatus(session[p].user_id, "Non-Broken")]
    /\ pc' = [pc EXCEPT ![p] = "prof_post"]
    /\ UNCHANGED <<db, files, now, session, resp>>

\* The POST reaches the UPDATE: all three checks of the form pass
PasswordChangeValid(p, method, current_password, new_password, confirm_password) ==
    /\ method = "POST"
    /\ loc[p].user # <<>>
    /\ check_password_hash(loc[p].user[1].password_hash, current_password)
    /\ Len(new_password) >= MinPasswordLen
    /\ new_password = confirm_password

\* the password change of a POST, then render
ProfilePost(p, method, current_password, new_password, confirm_password) ==
    /\ At(p, "prof_post")
    /\ UNCHANGED <<detection_history, history_seq, user_seq, writer, files, now, session, loc>>
    /\ IF method = "GET"
       THEN Return(p, "profile.html", "") /\ UNCHANGED users
       ELSE IF ~PasswordChangeValid(p, method, current_password, new_password,
                                    confirm_password)
       THEN Return(p, "profile.html", "error") /\ UNCHANGED users
       ELSE /\ CanWrite(p)
            /\ users' = [i \in 1..Len(users) |->
                           IF users[i].id = session[p].user_id
                           THEN [users[i] EXCEPT !.password_hash =
                                                   generate_password_hash(new_password)]
                           ELSE users[i]]
            /\ Return(p, "profile.html", "success")

\* the UPDATE raises (database locked, storage)
ProfilePostFails(p, method, current_password, new_password, confirm_password) ==
    /\ At(p, "prof_post")
    /\ PasswordChangeValid(p, method, current_password, new_password, confirm_password)
    /\ Raise(p)
    /\ loc' = [loc EXCEPT ![p] = [Loc0 EXCEPT !.route = loc[p].route, !.failure = "update"]]
    /\ UNCHANGED <<db, files, now, session>>

\* ------------------------------------------------------------------- upload
\* The comparison off by one: a single finding does not fail the vehicle.
VehicleStatusOffByOne(boxes) == IF Len(boxes) > 1 THEN "Broken" ELSE "Non-Broken"

\* if len(results.boxes) > 0: vehicle_status = "Broken"
VehicleStatus(boxes) == IF Len(boxes) > 0 THEN "Broken" ELSE "Non-Broken"

\* for box in results.boxes: ...
RECURSIVE ProcessBoxes(_, _)
ProcessBoxes(boxes, acc) ==
    IF boxes = <<>> THEN acc
    ELSE LET box == Head(boxes)
             cls_id == box.cls
             conf == box.conf
             class_name == names[cls_id + 1]
             x1 == int(box.xyxy[1])
             y1 == int(box.xyxy[2])
             x2 == int(box.xyxy[3])
             y2 == int(box.xyxy[4])
             color == ColorOf(class_name)
         IN  ProcessBoxes(Tail(boxes),
               [defect_classes |-> Append(acc.defect_classes, class_name),
                confidence_scores |-> Append(acc.confidence_scores, FormatPercent2(conf)),
                img |-> Append(acc.img, [rect |-> <<x1, y1, x2, y2>>, color |-> color,
                                         label |-> <<class_name, FormatPercent0(conf)>>]),
                detections |-> Append(acc.detections,
                                      [class |-> class_name,
                                       confidence |-> FormatPercent2(conf)])])

\* The count left out of the INSERT: the column keeps its DEFAULT 0.
DetectionCountDefault(detections) == 0

\* len(detections)
DetectionCount(detections) == Len(detections)

\* INSERT OR REPLACE on a fixed key: the new row takes the place of the last.
InsertRowReplacing(history, staged) ==
    IF history = <<>> THEN staged ELSE SubSeq(history, 1, Len(history) - 1) \o staged

\* the committed INSERT adds the pending row after the existing rows
InsertRow(history, staged) == history \o staged

\* /upload: session check, validation of the file, file.save
Upload(p, method, file) ==
    /\ At(p, "idle")
    /\ UNCHANGED <<db, results, now, session>>
    /\ LET l == [Loc0 EXCEPT !.route = "upload"]
           file_ext == lower(file.ext)
       IN  IF ~LoggedIn(p)
           THEN /\ loc' = [loc EXCEPT ![p] = l]
                /\ Return(p, "redirect_login", "")
                /\ UNCHANGED <<uploads, nfiles>>
           ELSE IF method = "GET"
           THEN /\ loc' = [loc EXCEPT ![p] = l]
                /\ Return(p, "upload.html", "")
                /\ UNCHANGED <<uploads, nfiles>>
           ELSE IF ~file.present \/ (file.stem = "" /\ file.ext = "")
           THEN /\ loc' = [loc EXCEPT ![p] = [l EXCEPT !.failure = "no_file"]]
                /\ Return(p, "upload.html", "error")
                /\ UNCHANGED <<uploads, nfiles>>
           ELSE IF file_ext \notin allowed_extensions
           THEN /\ loc' = [loc EXCEPT ![p] = [l EXCEPT !.failure = "bad_ext"]]
                /\ Return(p, "upload.html", "error")
                /\ UNCHANGED <<uploads, nfiles>>
           ELSE /\ nfiles < MaxUploads
                /\ LET filename == <<session[p].username, nfiles + 1, file_ext>>
                   IN  /\ loc' = [loc EXCEPT ![p] = [l EXCEPT !.filename = filename]]
                       /\ uploads' = uploads \cup {filename}
                /\ nfiles' = nfiles + 1
                /\ pc' = [pc EXCEPT ![p] = "up_detect"]
                /\ UNCHANGED resp

\* results = model(image_path, conf=0.05)[0]; img = cv2.imread(image_path);
\* the loop over results.boxes: lists, status, drawing on img
UploadDetect(p, boxes) ==
    /\ At(p, "up_detect")
    /\ LET acc == ProcessBoxes(boxes,
                     [defect_classes |-> <<>>, confidence_scores |-> <<>>,
                      img |-> <<>>, detections |-> <<>>])
       IN  loc' = [loc EXCEPT ![p].boxes = boxes,
                              ![p].defect_classes = acc.defect_classes,
                              ![p].confidence_scores = acc.confidence_scores,
                              ![p].detections = acc.detections,
                              ![p].img = acc.img,
                              ![p].vehicle_status = VehicleStatus(boxes)]
    /\ pc' = [pc EXCEPT ![p] = "up_write"]
    /\ UNCHANGED <<db, files, now, session, resp>>

\* the detection call raises
UploadDetectFails(p) ==
    /\ At(p, "up_detect")
    /\ Raise(p)
    /\ loc' = [loc EXCEPT ![p] = [Loc0 EXCEPT !.route = loc[p].route, !.failure = "detect"]]
    /\ UNCHANGED <<db, files, now, session>>

\* cv2.imwrite(result_path, img): the file is written and the call returns
\* True, or it cannot be written and the call returns False; the handler
\* goes on in both cases.
UploadWrite(p, ok) ==
    /\ At(p, "up_write")
    /\ results' = IF ok THEN results \cup {[name |-> loc[p].filename, content |-> loc[p].img]}
                  ELSE results
    /\ loc' = [loc EXCEPT ![p].imwrite_ok = ok,
                          ![p].failure = IF ok THEN "" ELSE "imwrite"]
    /\ pc' = [pc EXCEPT ![p] = "up_insert"]
    /\ UNCHANGED <<db, uploads, nfiles, now, session, resp>>

\* cv2.imwrite raises
UploadWriteFails(p) ==
    /\ At(p, "up_write")
    /\ Raise(p)
    /\ loc' = [loc EXCEPT ![p] = [Loc0 EXCEPT !.route = loc[p].route, !.failure = "imwrite"]]
    /\ UNCHANGED <<db, files, now, session>>

\* conn.execute(INSERT INTO detection_history ...): the row is pending in
\* the connection's transaction, which holds the write lock
UploadInsert(p) ==
    /\ At(p, "up_insert")
    /\ CanWrite(p)
    /\ writer' = p
    /\ loc' = [loc EXCEPT ![p].staged =
                 << [id |-> NextId(history_seq),
                     user_id |-> session[p].user_id,
                     original_image |-> loc[p].filename,
                     result_image |-> loc[p].filename,
                     vehicle_status |-> loc[p].vehicle_status,
                     defect_classes |-> JoinOr(loc[p].defect_classes, "None"),
                     confidence_scores |-> JoinOr(loc[p].confidence_scores, "N/A"),
                     detection_count |-> DetectionCount(loc[p].detections),
                     timestamp |-> now] >>]
    /\ pc' = [pc EXCEPT ![p] = "up_commit"]
    /\ UNCHANGED <<users, user_seq, detection_history, history_seq, files, now, session, resp>>

\* the INSERT raises (database locked by another writer, storage)
UploadInsertFails(p) ==
    /\ At(p, "up_insert")
    /\ Raise(p)
    /\ loc' = [loc EXCEPT ![p] = [Loc0 EXCEPT !.route = loc[p].route, !.failure = "insert"]]
    /\ UNCHANGED <<db, files, now, session>>

\* conn.commit(); result_data; flash success; render
UploadCommit(p) ==
    /\ At(p, "up_commit")
    /\ detection_history' = InsertRow(detection_history, loc[p].staged)
    /\ history_seq' = loc[p].staged[1].id
    /\ writer' = IF writer = p THEN 0 ELSE writer
    /\ loc' = [loc EXCEPT ![p].staged = <<>>,
                          ![p].created = loc[p].staged[1].id,
                          ![p].result_data =
                             << [result_image |-> loc[p].filename,
                                 original_image |-> loc[p].filename,
                                 vehicle_status |-> loc[p].vehicle_status,
                                 detections |-> loc[p].detections,
                                 detection_count |-> DetectionCount(loc[p].detections)] >>]
    /\ Return(p, "upload.html", "success")
    /\ UNCHANGED <<users, user_seq, files, now, session>>

\* the commit raises: the transaction is rolled back
UploadCommitFails(p) ==
    /\ At(p, "up_commit")
    /\ writer' = IF writer = p THEN 0 ELSE writer
    /\ Raise(p)
    /\ loc' = [loc EXCEPT ![p] = [Loc0 EXCEPT !.route = loc[p].route, !.failure = "commit"]]
    /\ UNCHANGED <<users, user_seq, detection_history, history_seq, files, now, session>>

\* ------------------------------------------------------------- environment
\* The response is sent to the client, which may issue its next request.
Finish(p) ==
    /\ pc[p] = "done"
    /\ pc' = [pc EXCEPT ![p] = "idle"]
    /\ loc' = [loc EXCEPT ![p] = Loc0]
    /\ resp' = [resp EXCEPT ![p] = NoResp]
    /\ UNCHANGED <<db, files, now, session>>

\* The server clock (CURRENT_TIMESTAMP, one-second resolution) advances.
Tick ==
    /\ ~Sending
    /\ now < MaxTime
    /\ now' = now + 1
    /\ UNCHANGED <<db, files, session, pc, loc, resp>>

Methods == {"GET", "POST"}

\* Every route, from an empty database, the requests coming one at a time
\* from the first client.
First == {1}

Next ==
    \/ \E p \in First, m \in Methods, u \in UsernameInputs, pw \in PasswordInputs :
          Login(p, m, u, pw)
    \/ \E p \in First, m \in Methods, u \in UsernameInputs, pw, cf \in PasswordInputs :
          Register(p, m, u, pw, cf)
    \/ \E p \in First : RegisterInsert(p)
    \/ \E p \in First : RegisterInsertFails(p)
    \/ \E p \in First : Logout(p)
    \/ \E p \in First : Profile(p)
    \/ \E p \in First : ProfileBroken(p)
    \/ \E p \in First : ProfileNonBroken(p)
    \/ \E p \in First, m \in Methods, cur, new, cf \in PasswordInputs :
          ProfilePost(p, m, cur, new, cf)
    \/ \E p \in First, m \in Methods, cur, new, cf \in PasswordInputs :
          ProfilePostFails(p, m, cur, new, cf)
    \/ \E p \in First : Dashboard(p)
    \/ \E p \in First : DashboardBroken(p)
    \/ \E p \in First : DashboardNonBroken(p)
    \/ \E p \in First : DashboardRecent(p)
    \/ \E p \in First : History(p)
    \/ \E p \in First, m \in Methods, f \in FileInputs : Upload(p, m, f)
    \/ \E p \in First, boxes \in FindingSets : UploadDetect(p, boxes)
    \/ \E p \in First : UploadDetectFails(p)
    \/ \E p \in First, ok \in BOOLEAN : UploadWrite(p, ok)
    \/ \E p \in First : UploadWriteFails(p)
    \/ \E p \in First : UploadInsert(p)
    \/ \E p \in First : UploadInsertFails(p)
    \/ \E p \in First : UploadCommit(p)
    \/ \E p \in First : UploadCommitFails(p)
    \/ \E p \in Clients : Finish(p)
    \/ Tick

Spec == Init /\ [][Next]_vars

\* The inspection routes under concurrent requests: two operators are
\* registered and every client is logged in (the state after two
\* registrations and one login per client).
Operators == << [id |-> 1, username |-> <<"a", "l", "i">>,
                 password_hash |-> generate_password_hash(<<"p", "w", "0", "1">>)],
                [id |-> 2, username |-> <<"b", "o", "b">>,
                 password_hash |-> generate_password_hash(<<"p", "w", "0", "1">>)] >>

InitLedger ==
    /\ users = Operators
    /\ user_seq = Len(Operators)
    /\ detection_history = <<>>
    /\ history_seq = 0
    /\ writer = 0
    /\ uploads = {}
    /\ results = {}
    /\ nfiles = 0
    /\ session \in [Clients -> { [user_id |-> u.id, username |-> u.username] :
                                  u \in Range(Operators) }]
    /\ pc = [p \in Clients |-> "idle"]
    /\ loc = [p \in Clients |-> Loc0]
    /\ resp = [p \in Clients |-> NoResp]
    /\ now = 0

NextLedger ==
    \/ \E p \in Clients : Dashboard(p)
    \/ \E p \in Clients : DashboardBroken(p)
    \/ \E p \in Clients : DashboardNonBroken(p)
    \/ \E p \in Clients : DashboardRecent(p)
    \/ \E p \in Clients : History(p)
    \/ \E p \in Clients, m \in Methods, f \in FileInputs : Upload(p, m, f)
    \/ \E p \in Clients, boxes \in FindingSets : UploadDetect(p, boxes)
    \/ \E p \in Clients : UploadDetectFails(p)
    \/ \E p \in Clients, ok \in BOOLEAN : UploadWrite(p, ok)
    \/ \E p \in Clients : UploadWriteFails(p)
    \/ \E p \in Clients : UploadInsert(p)
    \/ \E p \in Clients : UploadInsertFails(p)
    \/ \E p \in Clients : UploadCommit(p)
    \/ \E p \in Clients : UploadCommitFails(p)
    \/ \E p \in Clients : Finish(p)
    \/ Tick

SpecLedger == InitLedger /\ [][NextLedger]_vars

\* ================================================================== claims
Rows == 1..Len(detection_history)

\* The request of client p has run its route's handler to the end.
Answered(p, route) == pc[p] = "done" /\ loc[p].route = route

\* The upload of client p has got as far as the detector's findings.
HasFindings(p) == loc[p].route = "upload" /\ loc[p].filename # <<>>
                  /\ pc[p] \in {"up_write", "up_insert", "up_commit", "done"}

\* The upload of client p has committed its record.
Created(p) == Answered(p, "upload") /\ loc[p].created # 0

\* The record a finished upload has created.
RowOf(p) == CHOOSE r \in Range(detection_history) : r.id = loc[p].created

\* C1: the upload handler derives 'Broken' exactly when the detector
\* returned at least one finding and 'Non-Broken' otherwise, so every row of
\* detection_history has vehicle_status = 'Broken' iff detection_count > 0.
C1_StatusIffFindings ==
    /\ \A i \in Rows :
          /\ detection_history[i].vehicle_status \in {"Broken", "Non-Broken"}
          /\ detection_history[i].vehicle_status = "Broken"
                <=> detection_history[i].detection_count > 0
    /\ \A p \in Clients :
          HasFindings(p) =>
             /\ loc[p].vehicle_status = "Broken" <=> Len(loc[p].boxes) > 0
             /\ loc[p].vehicle_status = "Non-Broken" <=> Len(loc[p].boxes) = 0

\* A Broken and a Non-Broken record have been created.
C1_Witness ==
    /\ \E i \in Rows : detection_history[i].vehicle_status = "Broken"
    /\ \E i \in Rows : detection_history[i].vehicle_status = "Non-Broken"

\* C2: the total, broken and non-broken counts a dashboard or profile
\* request has computed satisfy total = broken + non-broken, also when
\* uploads commit while the three counts are being computed.
C2_AggregateConsistent ==
    \A p \in Clients :
       \/ (loc[p].route = "dashboard" /\ pc[p] \in {"dash_recent", "done"}
             /\ resp[p].kind # "redirect_login")
       \/ (loc[p].route = "profile" /\ pc[p] = "prof_post")
       => loc[p].total_inspections = loc[p].broken_count + loc[p].non_broken_count

\* C3: every record the dashboard or the history page returns belongs to
\* the requesting session's operator, and the counts of a dashboard request
\* count no record of another operator.
C3_QueriesScoped ==
    \A p \in Clients :
       /\ (Answered(p, "dashboard") \/ Answered(p, "history")) =>
             \A i \in 1..Len(loc[p].records) :
                loc[p].records[i].user_id = session[p].user_id
       /\ loc[p].route = "dashboard" =>
             LET own == { i \in Rows : detection_history[i].user_id = session[p].user_id }
             IN  /\ loc[p].total_inspections <= Cardinality(own)
                 /\ loc[p].broken_count <= Cardinality(
                       { i \in own : detection_history[i].vehicle_status = "Broken" })
                 /\ loc[p].non_broken_count <= Cardinality(
                       { i \in own : detection_history[i].vehicle_status = "Non-Broken" })

\* A dashboard has returned records while the table holds another
\* operator's record.
C3_Witness ==
    \E p \in Clients :
       /\ Answered(p, "dashboard")
       /\ loc[p].records # <<>>
       /\ loc[p].total_inspections > 0
       /\ \E i \in Rows : detection_history[i].user_id # session[p].user_id

\* C4: an upload request in which a step fails (no file, bad extension,
\* detection, writing the annotated image, insert, commit) creates no
\* record and returns no success result.
C4_FailedUploadCreatesNothing ==
    \A p \in Clients :
       (loc[p].route = "upload" /\ loc[p].failure # "") =>
          /\ loc[p].created = 0
          /\ loc[p].staged = <<>>
          /\ resp[p].flash # "success"

\* C5: records are append-only: a step of any route leaves every existing
\* row as it is, and the table changes only by the insert of one new row
\* that an upload commits.
C5_AppendOnly ==
    [][ /\ Len(detection_history') >= Len(detection_history)
        /\ SubSeq(detection_history', 1, Len(detection_history)) = detection_history
        /\ detection_history' # detection_history =>
              /\ Len(detection_history') = Len(detection_history) + 1
              /\ \E p \in Clients : pc[p] = "up_commit" /\ pc'[p] = "done"
      ]_vars

\* Two records exist and a password change has just succeeded.
C5_Witness ==
    /\ Len(detection_history) >= 2
    /\ \E p \in Clients : Answered(p, "profile") /\ resp[p].flash = "success"

\* C6: the dashboard and the history page return the operator's records
\* newest first by timestamp, records with equal timestamps in descending
\* identity order.
C6_NewestFirstTiesById ==
    \A p \in Clients :
       (Answered(p, "dashboard") \/ Answered(p, "history")) =>
          \A i, j \in 1..Len(loc[p].records) :
             i < j =>
                \/ loc[p].records[i].timestamp > loc[p].records[j].timestamp
                \/ /\ loc[p].records[i].timestamp = loc[p].records[j].timestamp
                   /\ loc[p].records[i].id > loc[p].records[j].id

\* C7: under concurrent uploads no two records share an identity, a record
\* inserted later has a strictly larger identity than every record inserted
\* before it, and a reader sees committed rows only: a row pending in
\* another request's transaction is in no query's result.
C7_IdentitiesIncrease ==
    /\ \A i, j \in Rows : i < j => detection_history[i].id < detection_history[j].id
    /\ \A p \in Clients :
          /\ loc[p].staged # <<>> =>
                \A i \in Rows : detection_history[i].id < loc[p].staged[1].id
          /\ \A i \in 1..Len(loc[p].records) :
                /\ loc[p].records[i] \in Range(detection_history)
                /\ \A q \in Clients :
                      loc[q].staged # <<>> => loc[p].records[i].id # loc[q].staged[1].id

\* A query has returned the first record while the second upload's row is
\* pending in its transaction.
C7_Witness ==
    /\ Len(detection_history) = 1
    /\ \E p, q \in Clients :
          /\ p # q
          /\ pc[q] = "up_commit"
          /\ loc[q].staged # <<>>
          /\ Answered(p, "history")
          /\ loc[p].records # <<>>

\* C8: the stored detection_count of a record is the length of the finding
\* set the detector returned for its upload, which is also the number of
\* class names, of confidence strings and the detection_count of the summary.
C8_CountIsLength ==
    \A p \in Clients :
       /\ loc[p].staged # <<>> =>
             loc[p].staged[1].detection_count = Len(loc[p].boxes)
       /\ Created(p) =>
             /\ RowOf(p).detection_count = Len(loc[p].boxes)
             /\ Len(loc[p].defect_classes) = Len(loc[p].boxes)
             /\ Len(loc[p].confidence_scores) = Len(loc[p].boxes)
             /\ loc[p].result_data[1].detection_count = Len(loc[p].boxes)
             /\ Len(loc[p].result_data[1].detections) = Len(loc[p].boxes)

\* An upload with a non-empty finding set has created its record.
C8_Witness ==
    \E p \in Clients : Created(p) /\ Len(loc[p].boxes) > 0

\* A finding with a confidence outside [0,1] or with x1 >= x2 or y1 >= y2
Malformed(box) ==
    \/ box.conf < 0
    \/ box.conf > 100000
    \/ int(box.xyxy[1]) >= int(box.xyxy[3])
    \/ int(box.xyxy[2]) >= int(box.xyxy[4])

\* C9: an upload whose finding set holds a malformed finding fails before
\* annotation and persistence, and creates no record.
C9_MalformedRejected ==
    \A p \in Clients :
       (HasFindings(p) /\ \E i \in 1..Len(loc[p].boxes) : Malformed(loc[p].boxes[i])) =>
          /\ pc[p] = "done"
          /\ resp[p].kind = "error500"
          /\ loc[p].created = 0

\* C10: an upload that passes validation and detection creates its record
\* only after its annotated image has been written: the result image of
\* every committed record is in the results folder, also for an empty
\* finding set, whose record is Non-Broken with detection_count 0.
C10_RecordAfterAnnotatedImage ==
    /\ \A i \in Rows :
          \E f \in results : f.name = detection_history[i].result_image
    /\ \A p \in Clients :
          (Created(p) /\ loc[p].boxes = <<>>) =>
             /\ RowOf(p).vehicle_status = "Non-Broken"
             /\ RowOf(p).detection_count = 0

\* C11: every record's user_id is the id of an existing users row, the user
\* whose credentials the login that established the uploading session
\* verified: a login answers with success only for a users row whose name and
\* password hash match the submitted form, the session it sets names that
\* row, every session in use names a users row, and a record in the making
\* or stored carries the session's user (whose name is part of the stored
\* file name). An upload, dashboard, history or profile request made without
\* a session is answered at once with a redirect to login and has read and
\* created nothing.
Portal == {"upload", "dashboard", "history", "profile"}
C11_RecordsBelongToVerifiedOperator ==
    /\ \A i \in Rows :
          \E u \in Range(users) :
              /\ u.id = detection_history[i].user_id
              /\ u.username = detection_history[i].original_image[1]
    /\ \A p \in Clients :
          /\ session[p] # NoSession =>
                \E u \in Range(users) :
                    session[p] = [user_id |-> u.id, username |-> u.username]
          /\ (Answered(p, "login") /\ resp[p].flash = "success") =>
                /\ loc[p].user \in Range(users)
                /\ loc[p].user.username = loc[p].form.a
                /\ check_password_hash(loc[p].user.password_hash, loc[p].form.b)
                /\ session[p] = [user_id |-> loc[p].user.id,
                                 username |-> loc[p].user.username]
          /\ loc[p].staged # <<>> =>
                \A i \in 1..Len(loc[p].staged) :
                    /\ session[p] # NoSession
                    /\ loc[p].staged[i].user_id = session[p].user_id
                    /\ loc[p].staged[i].original_image[1] = session[p].username
          /\ (loc[p].route \in Portal /\ session[p] = NoSession) =>
                /\ pc[p] = "done"
                /\ resp[p] = [kind |-> "redirect_login", flash |-> ""]
                /\ loc[p] = [Loc0 EXCEPT !.route = loc[p].route]

\* A record exists, and an upload made after logout has been redirected.
C11_Witness ==
    /\ Len(detection_history) >= 1
    /\ \E p \in Clients :
          /\ Answered(p, "upload")
          /\ session[p] = NoSession
          /\ resp[p].kind = "redirect_login"

====
